---- MODULE Spec2Model ----
(***************************************************************************)
(* A model of awesome-python-tools.py: the directory analyzer              *)
(* (FileSystemAnalyzer) with its three entry paths (direct call, the       *)
(* --analyze option of main, demo_file_analyzer), and the API tester       *)
(* (APITester over HTTPClient).                                            *)
(*                                                                         *)
(* The filesystem is an input: a root that is a directory, a regular file  *)
(* or missing, and, under a directory root, the sequence of nodes that     *)
(* root_path.rglob('*') yields, in the order it yields them.  The tree     *)
(* does not change during the life of one analyzer.                        *)
(***************************************************************************)
EXTENDS Integers, Sequences, FiniteSets, TLC

VARIABLES
    root_kind,        \* what root_path names: "dir", "file" or "missing"
    tree,             \* the nodes rglob('*') yields, in walk order
    entry,            \* how the scan was entered: "none", "direct", "cli", "demo"
    pc,               \* "idle", "walk", "raised", "rejected", "exited"
    find_duplicates,  \* the argument of the running analyze_directory call
    i,                \* position of the for loop in the walk (1-based)
    total_size,       \* the local total_size of analyze_directory
    file_hashes,      \* the local file_hashes of analyze_directory
    stats,            \* self.stats       (defaultdict(int))
    duplicates,       \* self.duplicates  (defaultdict(list))
    file_types,       \* self.file_types  (defaultdict(list))
    calls,            \* analyze_directory calls started on this analyzer
    reports_printed,  \* print_report calls made
    returned,         \* what each returned call showed its caller, in order
    results,          \* APITester.results
    history,          \* HTTPClient.history
    queue,            \* the tests run_tests has still to run
    api_pc,           \* "idle" or "running" (inside run_tests)
    n_calls,          \* test_endpoint calls made on the tester
    last_call,        \* the last test_endpoint call: its input, outcome and return value
    summary,          \* the last "passed/total" line run_tests printed
    run_len           \* len(tests) of the last run_tests call

fsVars == <<root_kind, tree, entry, pc, find_duplicates, i, total_size, file_hashes,
            stats, duplicates, file_types, calls, reports_printed, returned>>
apiVars == <<results, history, queue, api_pc, n_calls, last_call, summary, run_len>>
vars == <<fsVars, apiVars>>

(***************************************************************************)
(* Bounds of the model.                                                    *)
(***************************************************************************)
MaxNodes == 3      \* nodes under the root
MaxScans == 2      \* analyze_directory calls on one analyzer
MaxCalls == 3      \* test_endpoint calls on one tester
MaxTests == 2      \* len(tests) of one run_tests call
\* block_size is 65536 in the source; it is scaled so that the bounded file
\* contents below span several chunks of the read loop.
block_size == 2

(***************************************************************************)
(* defaultdict: a mapping whose domain grows on first use of a key.        *)
(***************************************************************************)
Put(d, k, v) == [x \in (DOMAIN d) \cup {k} |-> IF x = k THEN v ELSE d[x]]
\* d[k] of a defaultdict(int), read without inserting
GetInt(d, k) == IF k \in DOMAIN d THEN d[k] ELSE 0
\* d[k] of a defaultdict(list), read without inserting
GetList(d, k) == IF k \in DOMAIN d THEN d[k] ELSE <<>>
\* d[k] += n on a defaultdict(int)
Incr(d, k, n) == Put(d, k, GetInt(d, k) + n)
\* d[k].append(v) on a defaultdict(list)
AppendTo(d, k, v) == Put(d, k, Append(GetList(d, k), v))
EmptyDict == <<>>

(***************************************************************************)
(* File names and paths.  A name is a sequence of characters, a path a     *)
(* sequence of names below the root (str(item) is the path).               *)
(***************************************************************************)
N_AT == <<"A", ".", "T">>
N_bt == <<"b", ".", "t">>
N_M == <<"M">>
N_dotb == <<".", "b">>
Paths == {<<N_AT>>, <<N_M>>, <<N_dotb>>, <<N_M, N_bt>>, <<N_M, N_AT>>}

\* str.lower(), character by character
LowerChar(c) == CASE c = "A" -> "a" [] c = "T" -> "t" [] c = "M" -> "m" [] OTHER -> c
lower(s) == [k \in 1..Len(s) |-> LowerChar(s[k])]

\* str.rfind('.') as a 1-based position, 0 when there is no dot
RECURSIVE rfind_dot(_, _)
rfind_dot(name, k) ==
    IF k = 0 THEN 0 ELSE IF name[k] = "." THEN k ELSE rfind_dot(name, k - 1)

\* PurePath.suffix: the last dot and what follows it, unless the dot leads the name
\* or ends it (names ending in a dot are not in Paths: their suffix differs
\* between Python versions)
suffix(path) ==
    LET name == path[Len(path)]
        d == rfind_dot(name, Len(name))
    IN IF 1 < d /\ d < Len(name) THEN SubSeq(name, d, Len(name)) ELSE <<>>

no_extension == <<"no_extension">>
\* extension = item.suffix.lower() or 'no_extension'
extension(path) == IF lower(suffix(path)) # <<>> THEN lower(suffix(path)) ELSE no_extension

(***************************************************************************)
(* File contents and the content digest.  sha256 is modelled as an         *)
(* injective encoding of the bytes fed to the hasher (no collisions).      *)
(***************************************************************************)
Contents == {<<1>>, <<1, 2, 1>>, <<1, 2, 2>>}

RECURSIVE hasher_update(_, _)
hasher_update(h, chunk) ==
    IF chunk = <<>> THEN h ELSE hasher_update(h * 3 + Head(chunk), Tail(chunk))

\* f.read(block_size) at offset pos (0-based)
read_chunk(content, pos) ==
    SubSeq(content, pos + 1, IF pos + block_size < Len(content) THEN pos + block_size ELSE Len(content))

\* while chunk := f.read(block_size): hasher.update(chunk)
RECURSIVE read_loop(_, _, _)
read_loop(content, pos, h) ==
    LET chunk == read_chunk(content, pos)
    IN IF chunk = <<>> THEN h
       ELSE read_loop(content, pos + Len(chunk), hasher_update(h, chunk))

None == <<>>
\* the except clause is passed and the digest of what was read is returned
calculate_file_hash_NeverNone(item) ==
    <<read_loop(IF item.read_ok THEN item.content ELSE <<>>, 0, 0)>>

\* A hexdigest is returned as <<digest>>: a non-empty (truthy) value, as the
\* 64-character string is; None when open() or read() raises.
calculate_file_hash(item) ==
    IF item.read_ok THEN <<read_loop(item.content, 0, 0)>> ELSE None

(***************************************************************************)
(* The trees.                                                              *)
(***************************************************************************)
\* kind "file": is_file() is True.  stat_ok = FALSE: item.stat() raises OSError
\* (the file vanished after is_file); read_ok = FALSE: open(..., 'rb') raises
\* (no read permission).
\* kind "dir": is_dir() is True.
\* kind "other": neither (broken symlink, FIFO, socket, device).
\* kind "denied": the stat of the type check fails with an error is_file() does
\* not swallow (EACCES in a directory that can be listed but not searched, EIO).
FileNodes(p) ==
    {[path |-> p, kind |-> "file", content |-> c, stat_ok |-> TRUE, read_ok |-> TRUE] : c \in Contents}
    \cup {[path |-> p, kind |-> "file", content |-> <<1, 2, 1>>, stat_ok |-> TRUE, read_ok |-> FALSE],
          [path |-> p, kind |-> "file", content |-> <<1>>, stat_ok |-> FALSE, read_ok |-> TRUE]}
OtherNodes(p) ==
    {[path |-> p, kind |-> k, content |-> <<>>, stat_ok |-> TRUE, read_ok |-> TRUE] :
        k \in {"dir", "other", "denied"}}
Nodes == UNION {FileNodes(p) \cup OtherNodes(p) : p \in Paths}

parent(p) == SubSeq(p, 1, Len(p) - 1)
\* a walk: distinct paths, and every node below a directory comes after it
IsWalk(t) ==
    /\ \A a, b \in 1..Len(t) : a # b => t[a].path # t[b].path
    /\ \A b \in 1..Len(t) :
          Len(t[b].path) > 1 =>
              \E a \in 1..(b - 1) : t[a].path = parent(t[b].path) /\ t[a].kind = "dir"

RECURSIVE WalksOfLen(_)
WalksOfLen(n) ==
    IF n = 0 THEN {<<>>}
    ELSE {Append(tx[1], tx[2]) :
             tx \in {ty \in WalksOfLen(n - 1) \X Nodes : IsWalk(Append(ty[1], ty[2]))}}
Trees == UNION {WalksOfLen(n) : n \in 0..MaxNodes}

(***************************************************************************)
(* FileSystemAnalyzer.                                                     *)
(***************************************************************************)
\* the first file of a digest is only remembered in file_hashes
RecordDuplicate_FirstNotListed(dups, fh, h, path) ==
    IF h \in DOMAIN fh THEN AppendTo(dups, h, path) ELSE dups

\* lines 95-99: the path is appended to the bucket of its digest, whether the
\* digest was seen before in this call (line 96) or not (line 99)
RecordDuplicate(dups, fh, h, path) ==
    IF h \in DOMAIN fh THEN AppendTo(dups, h, path) ELSE AppendTo(dups, h, path)

\* line 98: file_hashes[file_hash] = str(item), on the first file of a digest
RecordFirst(fh, h, path) == IF h \in DOMAIN fh THEN fh ELSE Put(fh, h, path)

\* lines 92-99: the duplicates mapping after the file has been looked at
DuplicatesAfter(dups, fh, item, find) ==
    IF find /\ calculate_file_hash(item) # None
    THEN RecordDuplicate(dups, fh, calculate_file_hash(item)[1], item.path)
    ELSE dups

\* lines 87-90
FileTypesAfter(ft, item) ==
    AppendTo(ft, extension(item.path), [path |-> item.path, size |-> Len(item.content)])

\* print_report reads stats['total_files'], ['total_dirs'] and ['total_size']:
\* reading a defaultdict inserts the missing key
print_report(st) == Incr(Incr(Incr(st, "total_files", 0), "total_dirs", 0), "total_size", 0)

Snapshot(st) ==
    [find |-> find_duplicates, stats |-> st, file_types |-> file_types, duplicates |-> duplicates]

\* the body of analyze_directory up to the for loop (lines 73-77)
Begin(how, find) ==
    /\ calls < MaxScans
    /\ calls' = calls + 1
    /\ entry' = how
    /\ find_duplicates' = find
    /\ pc' = "walk"
    /\ i' = 1
    /\ total_size' = 0
    /\ file_hashes' = EmptyDict
    /\ UNCHANGED <<root_kind, tree, stats, duplicates, file_types, reports_printed, returned>>

\* a direct call of analyze_directory on the analyzer, also after an earlier
\* call returned or raised
AnalyzeDirectory(find) ==
    /\ pc \in {"idle", "raised"}
    /\ entry \in {"none", "direct"}
    /\ Begin("direct", find)
    /\ UNCHANGED apiVars

\* main, lines 518-521: no check of the path, find_duplicates defaults to False
MainAnalyze ==
    /\ pc = "idle" /\ entry = "none"
    /\ Begin("cli", FALSE)
    /\ UNCHANGED apiVars

\* demo_file_analyzer, lines 369-371: a missing path is refused
DemoRejected ==
    /\ pc = "idle" /\ entry = "none"
    /\ root_kind = "missing"
    /\ pc' = "rejected"
    /\ entry' = "demo"
    /\ UNCHANGED <<root_kind, tree, find_duplicates, i, total_size, file_hashes, stats,
                   duplicates, file_types, calls, reports_printed, returned>>
    /\ UNCHANGED apiVars

\* demo_file_analyzer, lines 373-374: any existing path is analyzed
DemoAnalyze ==
    /\ pc = "idle" /\ entry = "none"
    /\ root_kind # "missing"
    /\ Begin("demo", FALSE)
    /\ UNCHANGED apiVars

\* one iteration of the for loop on a regular file whose stat succeeds (lines 82-99)
VisitFile ==
    /\ pc = "walk" /\ i <= Len(tree)
    /\ tree[i].kind = "file" /\ tree[i].stat_ok
    /\ total_size' = total_size + Len(tree[i].content)
    /\ stats' = Incr(stats, "total_files", 1)
    /\ file_types' = FileTypesAfter(file_types, tree[i])
    /\ duplicates' = DuplicatesAfter(duplicates, file_hashes, tree[i], find_duplicates)
    /\ file_hashes' = IF find_duplicates /\ calculate_file_hash(tree[i]) # None
                      THEN RecordFirst(file_hashes, calculate_file_hash(tree[i])[1], tree[i].path)
                      ELSE file_hashes
    /\ i' = i + 1
    /\ UNCHANGED <<root_kind, tree, entry, pc, find_duplicates, calls, reports_printed, returned>>
    /\ UNCHANGED apiVars

\* one iteration on a regular file whose stat raises OSError (lines 82, 101-102)
VisitStatError ==
    /\ pc = "walk" /\ i <= Len(tree)
    /\ tree[i].kind = "file" /\ ~tree[i].stat_ok
    /\ stats' = Incr(stats, "errors", 1)
    /\ i' = i + 1
    /\ UNCHANGED <<root_kind, tree, entry, pc, find_duplicates, total_size, file_hashes,
                   duplicates, file_types, calls, reports_printed, returned>>
    /\ UNCHANGED apiVars

\* one iteration on a directory (lines 104-105)
VisitDir ==
    /\ pc = "walk" /\ i <= Len(tree)
    /\ tree[i].kind = "dir"
    /\ stats' = Incr(stats, "total_dirs", 1)
    /\ i' = i + 1
    /\ UNCHANGED <<root_kind, tree, entry, pc, find_duplicates, total_size, file_hashes,
                   duplicates, file_types, calls, reports_printed, returned>>
    /\ UNCHANGED apiVars

\* one iteration on a node for which is_file() and is_dir() are both False: no
\* branch is taken.  A node whose type check cannot stat it ends here too on a
\* Python whose is_file()/is_dir() swallow every OSError.
VisitSkipped ==
    /\ pc = "walk" /\ i <= Len(tree)
    /\ tree[i].kind \in {"other", "denied"}
    /\ i' = i + 1
    /\ UNCHANGED <<root_kind, tree, entry, pc, find_duplicates, total_size, file_hashes, stats,
                   duplicates, file_types, calls, reports_printed, returned>>
    /\ UNCHANGED apiVars

\* item.is_file() raises PermissionError (line 80, outside the try): the call
\* ends with the exception, nothing is printed or returned.  From main the
\* exception ends the program (lines 574 ff.).
VisitRaises ==
    /\ pc = "walk" /\ i <= Len(tree)
    /\ tree[i].kind = "denied"
    /\ pc' = "raised"
    /\ UNCHANGED <<root_kind, tree, entry, find_duplicates, i, total_size, file_hashes, stats,
                   duplicates, file_types, calls, reports_printed, returned>>
    /\ UNCHANGED apiVars

\* after the loop (lines 107-109): store the total, print the report, return stats
Finish ==
    /\ pc = "walk" /\ i > Len(tree)
    /\ stats' = print_report(Put(stats, "total_size", total_size))
    /\ reports_printed' = reports_printed + 1
    /\ returned' = Append(returned, Snapshot(stats'))
    /\ pc' = IF entry = "direct" THEN "idle" ELSE "exited"
    /\ UNCHANGED <<root_kind, tree, entry, find_duplicates, i, total_size, file_hashes,
                   duplicates, file_types, calls>>
    /\ UNCHANGED apiVars


(***************************************************************************)
(* HTTPClient and APITester.  What the server does is an input: the        *)
(* outcome of a request is a response with a status code, or an exception  *)
(* (connection error, timeout).                                            *)
(***************************************************************************)
Methods == {"GET"}
Endpoints == {"/posts", "/posts/1"}
Statuses == {200, 404}
Outcomes == {[raised |-> FALSE, status |-> s] : s \in Statuses} \cup {[raised |-> TRUE, status |-> 0]}
Tests == [method : Methods, endpoint : Endpoints, expected_status : Statuses]

RECURSIVE SeqsUpTo(_, _)
SeqsUpTo(S, n) ==
    IF n = 0 THEN {<<>>}
    ELSE SeqsUpTo(S, n - 1) \cup
         {Append(t, x) : t \in {u \in SeqsUpTo(S, n - 1) : Len(u) = n - 1}, x \in S}

\* urljoin(self.base_url, endpoint), for endpoints that are absolute paths
urljoin(endpoint) == <<"base_url", endpoint>>

\* HTTPClient.request: a response is recorded in history, an exception is re-raised
request_history(hist, method, url, outcome) ==
    IF outcome.raised THEN hist
    ELSE Append(hist, [method |-> method, url |-> url, status |-> outcome.status])

\* test_endpoint, lines 225-241: the value it returns
test_endpoint_return(test, outcome) ==
    IF outcome.raised THEN FALSE ELSE outcome.status = test.expected_status

\* a request that raises is recorded as a failed test
test_endpoint_results_RaiseRecorded(res, test, outcome) ==
    Append(res, [endpoint |-> test.endpoint, method |-> test.method,
                 passed |-> (~outcome.raised /\ outcome.status = test.expected_status)])

\* test_endpoint, lines 232-236: results after the call
test_endpoint_results(res, test, outcome) ==
    IF outcome.raised THEN res
    ELSE Append(res, [endpoint |-> test.endpoint, method |-> test.method,
                      passed |-> (outcome.status = test.expected_status)])

\* passed = sum(1 for r in self.results if r['passed'])
RECURSIVE count_passed(_)
count_passed(res) ==
    IF res = <<>> THEN 0
    ELSE (IF Head(res).passed THEN 1 ELSE 0) + count_passed(Tail(res))

NoCall == [test |-> [method |-> "GET", endpoint |-> "/posts", expected_status |-> 200],
           outcome |-> [raised |-> TRUE, status |-> 0], ret |-> FALSE]

\* the effect of one test_endpoint call on the tester and its client
DoTestEndpoint(test, outcome) ==
    /\ history' = request_history(history, test.method, urljoin(test.endpoint), outcome)
    /\ results' = test_endpoint_results(results, test, outcome)
    /\ last_call' = [test |-> test, outcome |-> outcome, ret |-> test_endpoint_return(test, outcome)]
    /\ n_calls' = n_calls + 1

\* a direct call of test_endpoint
TestEndpoint(test, outcome) ==
    /\ api_pc = "idle"
    /\ n_calls < MaxCalls
    /\ DoTestEndpoint(test, outcome)
    /\ UNCHANGED <<queue, api_pc, summary, run_len>>
    /\ UNCHANGED fsVars

\* run_tests, lines 245-246
RunTestsBegin(tests) ==
    /\ api_pc = "idle"
    /\ n_calls + Len(tests) <= MaxCalls
    /\ queue' = tests
    /\ run_len' = Len(tests)
    /\ api_pc' = "running"
    /\ UNCHANGED <<results, history, n_calls, last_call, summary>>
    /\ UNCHANGED fsVars

\* run_tests, lines 248-249: one iteration
RunTestsStep(outcome) ==
    /\ api_pc = "running"
    /\ queue # <<>>
    /\ DoTestEndpoint(Head(queue), outcome)
    /\ queue' = Tail(queue)
    /\ UNCHANGED <<api_pc, summary, run_len>>
    /\ UNCHANGED fsVars

\* run_tests, lines 251-252: the summary line
RunTestsEnd ==
    /\ api_pc = "running"
    /\ queue = <<>>
    /\ summary' = <<count_passed(results), Len(results)>>
    /\ api_pc' = "idle"
    /\ UNCHANGED <<results, history, queue, n_calls, last_call, run_len>>
    /\ UNCHANGED fsVars

\* APITester.__init__ and HTTPClient.__init__ (lines 139-148, 209-215)
ApiInit ==
    /\ results = <<>>
    /\ history = <<>>
    /\ queue = <<>>
    /\ api_pc = "idle"
    /\ n_calls = 0
    /\ last_call = NoCall
    /\ summary = <<>>
    /\ run_len = 0

\* FileSystemAnalyzer.__init__ (lines 46-50) on a root of any kind
FsInit ==
    /\ root_kind \in {"dir", "file", "missing"}
    /\ tree \in (IF root_kind = "dir" THEN Trees ELSE {<<>>})
    /\ entry = "none"
    /\ pc = "idle"
    /\ find_duplicates = FALSE
    /\ i = 1
    /\ total_size = 0
    /\ file_hashes = EmptyDict
    /\ stats = EmptyDict
    /\ duplicates = EmptyDict
    /\ file_types = EmptyDict
    /\ calls = 0
    /\ reports_printed = 0
    /\ returned = <<>>

Init == FsInit /\ ApiInit

Next ==
    \/ \E find \in BOOLEAN : AnalyzeDirectory(find)
    \/ MainAnalyze
    \/ DemoRejected
    \/ DemoAnalyze
    \/ VisitFile
    \/ VisitStatError
    \/ VisitDir
    \/ VisitSkipped
    \/ VisitRaises
    \/ Finish

Spec == Init /\ [][Next]_vars

\* the tester alone, beside an analyzer that is never used
InitAPI ==
    /\ root_kind = "dir"
    /\ tree = <<>>
    /\ FsInit
    /\ ApiInit

NextAPI ==
    \/ \E test \in Tests, outcome \in Outcomes : TestEndpoint(test, outcome)
    \/ \E tests \in SeqsUpTo(Tests, MaxTests) : RunTestsBegin(tests)
    \/ \E outcome \in Outcomes : RunTestsStep(outcome)
    \/ RunTestsEnd

SpecAPI == InitAPI /\ [][NextAPI]_vars

(***************************************************************************)
(* Vocabulary of the properties.                                           *)
(***************************************************************************)
\* the last analyze_directory call on the analyzer has returned
Returned == pc \in {"idle", "exited"} /\ returned # <<>>

InSeq(x, sq) == \E k \in 1..Len(sq) : sq[k] = x
Occurrences(x, sq) == Cardinality({k \in 1..Len(sq) : sq[k] = x})

RECURSIVE SumSeq(_)
SumSeq(sq) == IF sq = <<>> THEN 0 ELSE Head(sq) + SumSeq(Tail(sq))

RECURSIVE SumOfBuckets(_, _)
SumOfBuckets(ft, keys) ==
    IF keys = {} THEN 0
    ELSE LET k == CHOOSE x \in keys : TRUE
         IN SumSeq([n \in 1..Len(ft[k]) |-> ft[k][n].size]) + SumOfBuckets(ft, keys \ {k})
\* the sum of the 'size' fields over all entries of all file_types buckets
SumOfEntrySizes(ft) == SumOfBuckets(ft, DOMAIN ft)

\* the files of the tree by what the walk can do with them
IsFile(k) == tree[k].kind = "file"
StatOk(k) == IsFile(k) /\ tree[k].stat_ok
HashOk(k) == StatOk(k) /\ tree[k].read_ok
HashFails(k) == StatOk(k) /\ ~tree[k].read_ok
\* the sum of the stat-reported sizes of the files one walk counts
SumOfStatSizes == SumSeq([k \in 1..Len(tree) |-> IF StatOk(k) THEN Len(tree[k].content) ELSE 0])

\* entries of path p in all file_types buckets / in all duplicates buckets
RECURSIVE EntriesOf(_, _, _)
EntriesOf(p, ft, keys) ==
    IF keys = {} THEN 0
    ELSE LET k == CHOOSE x \in keys : TRUE
         IN Cardinality({n \in 1..Len(ft[k]) : ft[k][n].path = p}) + EntriesOf(p, ft, keys \ {k})
RECURSIVE BucketOccurrences(_, _, _)
BucketOccurrences(p, dups, keys) ==
    IF keys = {} THEN 0
    ELSE LET k == CHOOSE x \in keys : TRUE
         IN Occurrences(p, dups[k]) + BucketOccurrences(p, dups, keys \ {k})

\* two reports agree up to the order of the paths inside a bucket
SameBuckets(a, b) ==
    /\ DOMAIN a = DOMAIN b
    /\ \A k \in DOMAIN a :
          /\ Len(a[k]) = Len(b[k])
          /\ \A x \in {a[k][n] : n \in 1..Len(a[k])} \cup {b[k][n] : n \in 1..Len(b[k])} :
                Occurrences(x, a[k]) = Occurrences(x, b[k])
SameReport(a, b) ==
    /\ \A k \in {"total_files", "total_dirs", "total_size", "errors"} :
          GetInt(a.stats, k) = GetInt(b.stats, k)
    /\ SameBuckets(a.file_types, b.file_types)
    /\ SameBuckets(a.duplicates, b.duplicates)

(***************************************************************************)
(* The properties.                                                         *)
(***************************************************************************)

\* C1: after analyze_directory(find_duplicates=True) has returned, every bucket
\* of the duplicates mapping has at least 2 member paths.
C1_NoSingletonBucket ==
    (Returned /\ find_duplicates) =>
        \A h \in DOMAIN duplicates : Len(duplicates[h]) >= 2

\* C2: after analyze_directory(find_duplicates=True) has returned, two visited
\* files whose stat and hashing succeeded and whose contents are identical have
\* their paths in the same bucket, the one keyed by their digest; two files with
\* different digests are never in one bucket.
C2_SameContentSameBucket ==
    (Returned /\ find_duplicates) =>
        \A a, b \in 1..Len(tree) :
            (HashOk(a) /\ HashOk(b)) =>
                /\ tree[a].content = tree[b].content =>
                      \E h \in DOMAIN duplicates :
                          /\ <<h>> = calculate_file_hash(tree[a])
                          /\ InSeq(tree[a].path, duplicates[h])
                          /\ InSeq(tree[b].path, duplicates[h])
                /\ tree[a].content # tree[b].content =>
                      ~ \E h \in DOMAIN duplicates :
                          InSeq(tree[a].path, duplicates[h]) /\ InSeq(tree[b].path, duplicates[h])
C2_Witness ==
    /\ Returned /\ find_duplicates
    /\ \E a, b, c \in 1..Len(tree) :
          /\ a < b /\ HashOk(a) /\ HashOk(b) /\ HashOk(c)
          /\ extension(tree[a].path) # extension(tree[b].path)
          /\ tree[a].content = tree[b].content
          /\ tree[a].content # tree[c].content
          /\ \E h \in DOMAIN duplicates : Len(duplicates[h]) = 2

\* C3: whenever a call of analyze_directory has returned, after any number of
\* earlier calls, stats['total_size'] is the sum of the 'size' fields of all
\* file_types entries.
C3_TotalSizeIsSumOfEntries ==
    Returned => GetInt(stats, "total_size") = SumOfEntrySizes(file_types)

\* C4: after a scan, total_files + total_dirs + errors is the number of nodes
\* under the root (here already for the first scan of an analyzer).
C4_EveryNodeCounted ==
    (Returned /\ calls = 1) =>
        GetInt(stats, "total_files") + GetInt(stats, "total_dirs") + GetInt(stats, "errors")
            = Len(tree)

\* C5: two scans of the unchanged tree with the same argument, by the same
\* analyzer, return reports with the same contents up to path order.
C5_Idempotent ==
    \A a, b \in 1..Len(returned) :
        returned[a].find = returned[b].find => SameReport(returned[a], returned[b])

\* C6: when the root is missing or is not a directory, no scan is started: no
\* walk, no report printed, no statistics returned, on every entry path.
C6_FailFast ==
    root_kind # "dir" => (pc # "walk" /\ reports_printed = 0 /\ returned = <<>>)

\* C7: a root holding exactly one file that cannot be read (its stat or its
\* open fails) ends the scan with errors = 1 and the file not in total_files.
C7_UnreadableFileIsAnError ==
    (Returned /\ calls = 1 /\ Len(tree) = 1 /\ IsFile(1) /\ ~HashOk(1)) =>
        (GetInt(stats, "errors") = 1 /\ GetInt(stats, "total_files") = 0)

\* C8: with duplicate detection on, visiting a file whose stat succeeds and whose
\* hashing fails counts it in total_files, adds its size to the total, appends
\* its entry to its file_types bucket, adds its path to no duplicates bucket and
\* goes on with the walk; the total the call stores includes its size, and its
\* path is in no duplicates bucket afterwards.
C8_VisitOfHashFailure ==
    (pc = "walk" /\ i <= Len(tree) /\ find_duplicates /\ HashFails(i)) =>
        /\ GetInt(stats', "total_files") = GetInt(stats, "total_files") + 1
        /\ GetInt(stats', "errors") = GetInt(stats, "errors")
        /\ total_size' = total_size + Len(tree[i].content)
        /\ GetList(file_types', extension(tree[i].path)) =
              Append(GetList(file_types, extension(tree[i].path)),
                     [path |-> tree[i].path, size |-> Len(tree[i].content)])
        /\ duplicates' = duplicates
        /\ pc' = "walk" /\ i' = i + 1
C8_AfterHashFailure ==
    /\ Returned => GetInt(stats, "total_size") = SumOfStatSizes
    /\ \A k \in 1..Len(tree) :
          HashFails(k) => BucketOccurrences(tree[k].path, duplicates, DOMAIN duplicates) = 0
\* C8: every step of the walk on a file whose hashing fails counts it and lists
\* it without touching duplicates, and every state reached keeps its path out of
\* the duplicates buckets and its size in the stored total.
C8_HashFailureStillCounted == [][C8_VisitOfHashFailure /\ C8_AfterHashFailure']_vars
C8_Witness ==
    /\ Returned /\ find_duplicates
    /\ DOMAIN duplicates # {}
    /\ \E k \in 1..Len(tree) :
          /\ HashFails(k)
          /\ EntriesOf(tree[k].path, file_types, DOMAIN file_types) = 1
    /\ GetInt(stats, "total_files") = Len(tree)

\* C9: after a scan, every counted file has exactly one entry in file_types, in
\* the bucket of its lowercased suffix or in 'no_extension'; its path is at most
\* once in the duplicates buckets, and in none when find_duplicates is False or
\* its hashing failed.
C9_OneEntryPerFile ==
    Returned =>
        \A k \in 1..Len(tree) :
            StatOk(k) =>
                /\ EntriesOf(tree[k].path, file_types, DOMAIN file_types) = 1
                /\ \E n \in 1..Len(GetList(file_types, extension(tree[k].path))) :
                      file_types[extension(tree[k].path)][n].path = tree[k].path
                /\ BucketOccurrences(tree[k].path, duplicates, DOMAIN duplicates) <= 1
                /\ (~find_duplicates \/ HashFails(k)) =>
                      BucketOccurrences(tree[k].path, duplicates, DOMAIN duplicates) = 0

\* C10: a test_endpoint call whose request returns a response appends exactly
\* one record, with passed = (status = expected_status), and returns passed; a
\* call whose request raises leaves results as it is and returns False; results
\* only grows; passed records <= len(results) <= calls made; and the summary of
\* run_tests is (passed records, len(results)) over all runs so far.
C10_Call ==
    n_calls' = n_calls + 1 =>
        LET c == last_call' IN
        IF c.outcome.raised
        THEN results' = results /\ c.ret = FALSE
        ELSE /\ results' = Append(results, [endpoint |-> c.test.endpoint, method |-> c.test.method,
                                            passed |-> (c.outcome.status = c.test.expected_status)])
             /\ c.ret = (c.outcome.status = c.test.expected_status)
C10_Grows ==
    /\ n_calls' = n_calls => results' = results
    /\ Len(results') >= Len(results)
    /\ SubSeq(results', 1, Len(results)) = results
C10_Counts ==
    /\ Cardinality({k \in 1..Len(results) : results[k].passed}) <= Len(results)
    /\ Len(results) <= n_calls
C10_Summary ==
    (api_pc = "running" /\ api_pc' = "idle") =>
        summary' = <<Cardinality({k \in 1..Len(results') : results'[k].passed}), Len(results')>>
\* C10: every step of the tester keeps the four statements above.
C10_ResultsOfTester == [][C10_Call /\ C10_Grows /\ C10_Counts' /\ C10_Summary]_vars
\* a summary that is not about the run that printed it: an earlier run's records
\* are in it, and a test of this run whose request raised is not
C10_Witness ==
    /\ api_pc = "idle" /\ summary # <<>>
    /\ n_calls = 3
    /\ run_len = 1
    /\ last_call.outcome.raised /\ ~last_call.ret
    /\ Len(results) = 2
    /\ summary = <<1, 2>>

====
